---- MODULE Spec2Model ----
(***************************************************************************)
(* Korean-chess (Jang-gi) match server, src/main.go.                       *)
(*                                                                         *)
(* One handler goroutine per websocket connection (matchMaking), one       *)
(* dispatcher goroutine (matchUsers) that owns the waiting pool `users`,   *)
(* and, after the ready acknowledgment, one relay loop per connection      *)
(* (GameCommunication).  A connection is identified by its number; the     *)
(* *User a handler passes around is the address of that handler's `user`   *)
(* variable, so a *User is modelled by the connection number and the       *)
(* fields of the User by functions over connections.  A *Room is the index *)
(* of the Room in `heap`, the sequence of Rooms allocated so far.          *)
(*                                                                         *)
(* Fields that are only carried (Formation, Rating, Turn, Time) are left   *)
(* out: no statement of the code reads them.                               *)
(***************************************************************************)
EXTENDS Integers, Sequences, FiniteSets, TLC

\* ----------------------------------------------------------------- bounds
NumConns == 2          \* connections opened when games are played (Spec)
MatchConns == 5        \* connections opened when only matchmaking runs (MatchSpec)
MaxFrames == 2         \* frames the relay loops read, all connections together

\* ------------------------------------------------------ program constants
Nil == 0               \* a nil *User / *Room
EmptyID == 0           \* User.ID "" left by a join frame that did not decode
Forming == 0           \* Room.Status 0
Active == 1            \* Room.Status 1
Closed == 2            \* Room.Status 2
SideFirst == 8         \* user1.Side = 8
SideSecond == 16       \* user2.Side = 16
QueueCap == 1          \* make(chan *User, 1)
RoomID == 1            \* Room.ID "1"
TimeoutMs == 10000     \* 10*time.Second, in milliseconds
LastRow == 9           \* diagonalSymmetry: 9 - x
LastCol == 8           \* diagonalSymmetry: 8 - y

MaxConn == IF NumConns > MatchConns THEN NumConns ELSE MatchConns
Conns == 1..MaxConn

\* The squares of the 10 x 9 board
Board == (0..LastRow) \X (0..LastCol)

\* The elapsed time time.Since(time.Now()) can return: the gap between two
\* adjacent clock reads, in milliseconds.
ClockGap == {0, 1}

VARIABLES
    pc,          \* position of each connection's handler
    ID,          \* User.ID
    Side,        \* User.Side
    room,        \* User.room
    localRoom,   \* the handler's local `room` (matchMaking, GameCommunication)
    slot,        \* the seat index the locked loop of matchMaking stopped at
    game,        \* GameCommunication's local `game`
    frames,      \* history: the frames each relay loop has read, in order
    inbox,       \* the envelopes written to each connection, in order
    matchQueue,  \* the intake channel
    users,       \* the waiting pool, a map: the set of its <<identity, *User>> entries
    rooms,       \* the active-room index, a map: the set of its <<room id, *Room>> entries
    heap,        \* the Rooms allocated so far
    rwMutex,     \* holder of rwMutex, Nil when free
    probe        \* a coordinate pair diagonalSymmetry is applied to (SymSpec)

vars == <<pc, ID, Side, room, localRoom, slot, game, frames, inbox,
          matchQueue, users, rooms, heap, rwMutex, probe>>

\* ---------------------------------------------------------------- values

\* diagonalSymmetry with the row mirrored on the column bound (8 - x)
diagonalSymmetryColumnBound(x, y) == <<LastCol - x, LastCol - y>>

\* func diagonalSymmetry(x, y int) [2]int
diagonalSymmetry(x, y) == <<LastRow - x, LastCol - y>>

\* Game{} : the zero value of the relay's MoveEvent
ZeroGame == [Current |-> <<0, 0>>, Previous |-> <<0, 0>>, Over |-> FALSE]

\* Frames a client can send to a relay loop.  ok: the frame is valid JSON;
\* hasMove: it carries the "move" object with both coordinate pairs.
MoveFrame(cur, prev, over) ==
    [ok |-> TRUE, hasMove |-> TRUE, Current |-> cur, Previous |-> prev, Over |-> over]

OverOnlyFrame ==
    [ok |-> TRUE, hasMove |-> FALSE, Current |-> <<0, 0>>, Previous |-> <<0, 0>>, Over |-> TRUE]

BadFrame ==
    [ok |-> FALSE, hasMove |-> FALSE, Current |-> <<0, 0>>, Previous |-> <<0, 0>>, Over |-> FALSE]

Frames ==
    { MoveFrame(<<9, 0>>, <<8, 0>>, FALSE),
      MoveFrame(<<3, 4>>, <<2, 2>>, FALSE),
      MoveFrame(<<0, 8>>, <<1, 8>>, TRUE),
      OverOnlyFrame,
      BadFrame }

\* json.Unmarshal(msg, &game): fields the frame carries are overwritten, the
\* others keep the value `game` had; a frame that is not JSON changes nothing.
Unmarshal(f, g) ==
    IF ~f.ok THEN g
    ELSE [Current  |-> IF f.hasMove THEN f.Current ELSE g.Current,
          Previous |-> IF f.hasMove THEN f.Previous ELSE g.Previous,
          Over     |-> f.Over]

\* lines 260-261: both coordinate pairs of `game` are transformed in place
Transform(g) ==
    [g EXCEPT !.Current = diagonalSymmetry(g.Current[1], g.Current[2]),
              !.Previous = diagonalSymmetry(g.Previous[1], g.Previous[2])]

\* makeMessage(action, msg)
makeMessage(action, msg) == [action |-> action, msg |-> msg]

\* conn.WriteMessage on connection h
WriteMessage(box, h, env) == [box EXCEPT ![h] = Append(@, env)]

\* ------------------------------------------------------------------ Init

ServerInit ==
    /\ pc = [h \in Conns |-> "join"]
    /\ ID = [h \in Conns |-> EmptyID]
    /\ Side = [h \in Conns |-> 0]
    /\ room = [h \in Conns |-> Nil]
    /\ localRoom = [h \in Conns |-> Nil]
    /\ slot = [h \in Conns |-> 0]
    /\ game = [h \in Conns |-> ZeroGame]
    /\ frames = [h \in Conns |-> <<>>]
    /\ inbox = [h \in Conns |-> <<>>]
    /\ matchQueue = <<>>
    /\ users = {}
    /\ rooms = {}
    /\ heap = <<>>
    /\ rwMutex = Nil

NoProbe == [input |-> <<0, 0>>, value |-> <<0, 0>>, n |-> 0]

Init ==
    /\ ServerInit
    /\ probe = NoProbe

\* ------------------------------------------------------------- Go maps
\* A map is the set of its <<key, value>> entries, at most one per key.
Keys(m) == {e[1] : e \in m}
Lookup(m, k) == (CHOOSE e \in m : e[1] = k)[2]
\* m[k] = v that leaves an entry already under k in place (insert if absent)
StoreIfAbsent(m, k, v) == IF k \in Keys(m) THEN m ELSE m \cup {<<k, v>>}
\* m[k] = v that adds an entry beside the one already under k
StoreBeside(m, k, v) == m \cup {<<k, v>>}
Store(m, k, v) == {e \in m : e[1] # k} \cup {<<k, v>>}
Delete(m, k) == {e \in m : e[1] # k}

\* The orders in which `range` can produce a set of keys.
Orders(S) ==
    {o \in [1..Cardinality(S) -> S] : \A i, j \in 1..Cardinality(S) : o[i] = o[j] => i = j}

\* An unrecovered panic in any goroutine ends the process.
Crashed == \E h \in Conns : pc[h] = "panic"

\* ------------------------------------------------------ the dispatcher

\* MatchUsersLogic leaving user2 in the waiting pool (delete(users, user1.ID)
\* written twice)
MatchUsersLogicKeepsUser2(s, user1, user2) ==
    LET newRoom == [ID |-> RoomID, Users |-> <<Nil, Nil>>, Status |-> Forming]
        r == Len(s.heap) + 1
        room1 == [[s.room EXCEPT ![user1] = r] EXCEPT ![user2] = r]
        Side1 == [[s.Side EXCEPT ![user1] = SideFirst] EXCEPT ![user2] = SideSecond]
        view(u) == [id |-> ID[u], Side |-> Side1[u]]
        box1 == WriteMessage(s.inbox, user1, makeMessage("matched", view(user1)))
        box2 == WriteMessage(box1, user2, makeMessage("matched", view(user2)))
    IN  [users |-> Delete(Delete(s.users, ID[user1]), ID[user1]),
         heap  |-> Append(s.heap, newRoom),
         room  |-> room1,
         Side  |-> Side1,
         inbox |-> box2]

\* MatchUsersLogic with the two sides exchanged
MatchUsersLogicSwapsSides(s, user1, user2) ==
    LET newRoom == [ID |-> RoomID, Users |-> <<Nil, Nil>>, Status |-> Forming]
        r == Len(s.heap) + 1
        room1 == [[s.room EXCEPT ![user1] = r] EXCEPT ![user2] = r]
        Side1 == [[s.Side EXCEPT ![user1] = SideSecond] EXCEPT ![user2] = SideFirst]
        view(u) == [id |-> ID[u], Side |-> Side1[u]]
        box1 == WriteMessage(s.inbox, user1, makeMessage("matched", view(user1)))
        box2 == WriteMessage(box1, user2, makeMessage("matched", view(user2)))
    IN  [users |-> Delete(Delete(s.users, ID[user1]), ID[user2]),
         heap  |-> Append(s.heap, newRoom),
         room  |-> room1,
         Side  |-> Side1,
         inbox |-> box2]

\* func MatchUsersLogic(user1, user2 *User), on the part of the state the
\* dispatcher writes: s = [users, heap, room, Side, inbox].
MatchUsersLogic(s, user1, user2) ==
    LET newRoom == [ID |-> RoomID, Users |-> <<Nil, Nil>>, Status |-> Forming]
        r == Len(s.heap) + 1
        room1 == [[s.room EXCEPT ![user1] = r] EXCEPT ![user2] = r]
        Side1 == [[s.Side EXCEPT ![user1] = SideFirst] EXCEPT ![user2] = SideSecond]
        view(u) == [id |-> ID[u], Side |-> Side1[u]]
        box1 == WriteMessage(s.inbox, user1, makeMessage("matched", view(user1)))
        box2 == WriteMessage(box1, user2, makeMessage("matched", view(user2)))
    IN  [users |-> Delete(Delete(s.users, ID[user1]), ID[user2]),
         heap  |-> Append(s.heap, newRoom),
         room  |-> room1,
         Side  |-> Side1,
         inbox |-> box2]

\* lines 204-210: `for key := range users` with the keys produced in `order`.
\* An entry deleted before the iteration reaches it is not produced.
RECURSIVE ScanPool(_, _, _)
ScanPool(s, userInfo, order) ==
    IF order = <<>> THEN s
    ELSE LET key == Head(order) IN
         IF key \notin Keys(s.users) THEN ScanPool(s, userInfo, Tail(order))
         ELSE LET otherUser == Lookup(s.users, key) IN
              IF ID[userInfo] # ID[otherUser]
              THEN ScanPool(MatchUsersLogic(s, userInfo, otherUser), userInfo, Tail(order))
              ELSE ScanPool(s, userInfo, Tail(order))

\* func matchUsers(): one iteration of the dispatcher loop
matchUsers ==
    /\ ~Crashed
    /\ matchQueue # <<>>
    /\ LET userInfo == Head(matchQueue)
           pool == Store(users, ID[userInfo], userInfo)
           s0 == [users |-> pool, heap |-> heap, room |-> room, Side |-> Side, inbox |-> inbox]
       IN  \E order \in Orders(Keys(pool)) :
             LET s == ScanPool(s0, userInfo, order) IN
               /\ users' = s.users
               /\ heap' = s.heap
               /\ room' = s.room
               /\ Side' = s.Side
               /\ inbox' = s.inbox
    /\ matchQueue' = Tail(matchQueue)
    /\ UNCHANGED <<pc, ID, localRoom, slot, game, frames, rooms, rwMutex, probe>>

\* --------------------------------------------- the connection handler

\* The identities the join frame of connection h can carry: its own, or none
\* when the first read fails or the frame does not decode (lines 114-122).
JoinIDs(h) == {h, EmptyID}

\* lines 114-123: read the join frame, decode it into `user`
ReadJoin(h) ==
    /\ ~Crashed
    /\ pc[h] = "join"
    /\ \E id \in JoinIDs(h) : ID' = [ID EXCEPT ![h] = id]
    /\ pc' = [pc EXCEPT ![h] = "enqueue"]
    /\ UNCHANGED <<Side, room, localRoom, slot, game, frames, inbox,
                   matchQueue, users, rooms, heap, rwMutex, probe>>

\* func matchMakingRequest(user *User): matchQueue <- user
matchMakingRequest(h) ==
    /\ ~Crashed
    /\ pc[h] = "enqueue"
    /\ Len(matchQueue) < QueueCap
    /\ matchQueue' = Append(matchQueue, h)
    /\ pc' = [pc EXCEPT ![h] = "wait"]
    /\ UNCHANGED <<ID, Side, room, localRoom, slot, game, frames, inbox,
                   users, rooms, heap, rwMutex, probe>>

\* What the second read can leave in msg: the ready acknowledgment, another
\* frame, or nothing when the read fails.
SecondReads == {"done", "other", ""}

\* lines 138-151: the second read, and the test for "done" and for a room
ReadAck(h) ==
    /\ ~Crashed
    /\ pc[h] = "wait"
    /\ \E msg \in SecondReads :
         IF msg = "done"
         THEN /\ localRoom' = [localRoom EXCEPT ![h] = room[h]]
              /\ pc' = [pc EXCEPT ![h] = IF room[h] = Nil THEN "ret_nil" ELSE "lock"]
         ELSE /\ pc' = [pc EXCEPT ![h] = "ret"]
              /\ UNCHANGED localRoom
    /\ UNCHANGED <<ID, Side, room, slot, game, frames, inbox,
                   matchQueue, users, rooms, heap, rwMutex, probe>>

\* The first empty seat of a Room, 0 when both are taken (the loop of line 156)
FirstNil(r) ==
    IF heap[r].Users[1] = Nil THEN 1
    ELSE IF heap[r].Users[2] = Nil THEN 2 ELSE 0

\* LockSeats without rwMutex.Lock(): the seat loop runs unguarded
LockSeatsWithoutMutex(h) ==
    /\ ~Crashed
    /\ pc[h] = "lock"
    /\ rwMutex' = h
    /\ slot' = [slot EXCEPT ![h] = FirstNil(localRoom[h])]
    /\ pc' = [pc EXCEPT ![h] = "fill"]
    /\ UNCHANGED <<ID, Side, room, localRoom, game, frames, inbox,
                   matchQueue, users, rooms, heap, probe>>

\* lines 155-157: rwMutex.Lock(), then the loop runs to the first empty seat
LockSeats(h) ==
    /\ ~Crashed
    /\ pc[h] = "lock"
    /\ rwMutex = Nil
    /\ rwMutex' = h
    /\ slot' = [slot EXCEPT ![h] = FirstNil(localRoom[h])]
    /\ pc' = [pc EXCEPT ![h] = "fill"]
    /\ UNCHANGED <<ID, Side, room, localRoom, game, frames, inbox,
                   matchQueue, users, rooms, heap, probe>>

\* lines 158-162: room.Users[i] = &user; break; rwMutex.Unlock()
FillSeat(h) ==
    /\ ~Crashed
    /\ pc[h] = "fill"
    /\ heap' = IF slot[h] = 0 THEN heap
               ELSE [heap EXCEPT ![localRoom[h]].Users[slot[h]] = h]
    /\ rwMutex' = Nil
    /\ pc' = [pc EXCEPT ![h] = "check"]
    /\ UNCHANGED <<ID, Side, room, localRoom, slot, game, frames, inbox,
                   matchQueue, users, rooms, probe>>

\* SeatsSeen without the test of line 164: the handler goes on to RoomIsReady
\* whatever the seats hold
SeatsSeenUnchecked(h) == {TRUE}

\* What `room.Users[0] != nil && room.Users[1] != nil` can evaluate to in
\* handler h.  The seats are read outside rwMutex: the handler that took
\* seat 0 reads seat 1 in a race with the other handler's write, and may see
\* the write or still see nil; the handler that took seat 1 locked after the
\* other unlocked, and sees both.
SeatsSeen(h) ==
    LET r == localRoom[h]
        full == heap[r].Users[1] # Nil /\ heap[r].Users[2] # Nil
    IN  IF ~full THEN {FALSE}
        ELSE IF slot[h] = 1 THEN {TRUE, FALSE} ELSE {TRUE}

\* line 164: if room.Users[0] == nil || room.Users[1] == nil
CheckSeats(h) ==
    /\ ~Crashed
    /\ pc[h] = "check"
    /\ \E seen \in SeatsSeen(h) :
         pc' = [pc EXCEPT ![h] = IF seen THEN "ready" ELSE "spin"]
    /\ UNCHANGED <<ID, Side, room, localRoom, slot, game, frames, inbox,
                   matchQueue, users, rooms, heap, rwMutex, probe>>

\* line 166 and lines 179-181: the loop condition
\* time.Since(time.Now()) < 10*time.Second, and the timeout exit behind it
SpinCond(h) ==
    /\ ~Crashed
    /\ pc[h] = "spin"
    /\ \E elapsed \in ClockGap :
         IF elapsed < TimeoutMs
         THEN /\ pc' = [pc EXCEPT ![h] = "body"]
              /\ UNCHANGED heap
         ELSE /\ heap' = [heap EXCEPT ![localRoom[h]].Status = Closed]
              /\ pc' = [pc EXCEPT ![h] = "ret_timeout"]
    /\ UNCHANGED <<ID, Side, room, localRoom, slot, game, frames, inbox,
                   matchQueue, users, rooms, rwMutex, probe>>

\* lines 168-171: the loop body, goto RoomIsReady once both seats are seen
SpinBody(h) ==
    /\ ~Crashed
    /\ pc[h] = "body"
    /\ \E seen \in SeatsSeen(h) :
         pc' = [pc EXCEPT ![h] = IF seen THEN "ready" ELSE "spin"]
    /\ UNCHANGED <<ID, Side, room, localRoom, slot, game, frames, inbox,
                   matchQueue, users, rooms, heap, rwMutex, probe>>

\* line 184: RoomIsReady: room.Status = 1
RoomIsReady(h) ==
    /\ ~Crashed
    /\ pc[h] = "ready"
    /\ heap' = [heap EXCEPT ![localRoom[h]].Status = Active]
    /\ pc' = [pc EXCEPT ![h] = "start"]
    /\ UNCHANGED <<ID, Side, room, localRoom, slot, game, frames, inbox,
                   matchQueue, users, rooms, rwMutex, probe>>

\* ------------------------------------------------------ the relay loop

\* The frames read by all relay loops so far (the bound on the clients' input)
RECURSIVE FramesRead(_)
FramesRead(n) == IF n = 0 THEN 0 ELSE Len(frames[n]) + FramesRead(n - 1)

\* GameCommunication sending "start" to the first seat instead of its own
\* connection
GameCommunicationStartsFirstSeat(h) ==
    /\ ~Crashed
    /\ pc[h] = "start"
    /\ game' = [game EXCEPT ![h] = ZeroGame]
    /\ localRoom' = [localRoom EXCEPT ![h] = room[h]]
    /\ inbox' = WriteMessage(inbox, heap[room[h]].Users[1],
                             makeMessage("start", heap[room[h]]))
    /\ pc' = [pc EXCEPT ![h] = "relay"]
    /\ UNCHANGED <<ID, Side, room, slot, frames, matchQueue, users, rooms, heap, rwMutex, probe>>

\* lines 247-250: game := Game{}; room := user.room; the "start" envelope
GameCommunication(h) ==
    /\ ~Crashed
    /\ pc[h] = "start"
    /\ game' = [game EXCEPT ![h] = ZeroGame]
    /\ localRoom' = [localRoom EXCEPT ![h] = room[h]]
    /\ inbox' = WriteMessage(inbox, h, makeMessage("start", heap[room[h]]))
    /\ pc' = [pc EXCEPT ![h] = "relay"]
    /\ UNCHANGED <<ID, Side, room, slot, frames, matchQueue, users, rooms, heap, rwMutex, probe>>

\* Forward without the identity test: the move goes to every seat
ForwardToEverySeat(box, h, otherUser, g) ==
    WriteMessage(box, otherUser, makeMessage("move", g))

\* lines 263-267, one iteration: the seat holds otherUser
Forward(box, h, otherUser, g) ==
    IF ID[h] # ID[otherUser]
    THEN WriteMessage(box, otherUser, makeMessage("move", g))
    ELSE box

\* lines 253-257: ReadMessage fails, the loop returns
ReadError(h) ==
    /\ ~Crashed
    /\ pc[h] = "relay"
    /\ pc' = [pc EXCEPT ![h] = "ret_err"]
    /\ UNCHANGED <<ID, Side, room, localRoom, slot, game, frames, inbox,
                   matchQueue, users, rooms, heap, rwMutex, probe>>

\* lines 253-272: one frame is read, decoded into `game`, transformed and
\* forwarded to every seat whose identity is not the reader's; a nil seat is
\* dereferenced (otherUser.ID) and panics
Relay(h) ==
    /\ ~Crashed
    /\ pc[h] = "relay"
    /\ FramesRead(MaxConn) < MaxFrames
    /\ \E msg \in Frames :
         LET g == Transform(Unmarshal(msg, game[h]))
             seats == heap[localRoom[h]].Users
         IN  /\ frames' = [frames EXCEPT ![h] = Append(@, msg)]
             /\ game' = [game EXCEPT ![h] = g]
             /\ IF seats[1] = Nil
                THEN /\ pc' = [pc EXCEPT ![h] = "panic"]
                     /\ UNCHANGED inbox
                ELSE IF seats[2] = Nil
                THEN /\ pc' = [pc EXCEPT ![h] = "panic"]
                     /\ inbox' = Forward(inbox, h, seats[1], g)
                ELSE /\ pc' = [pc EXCEPT ![h] = IF g.Over THEN "over" ELSE "relay"]
                     /\ inbox' = Forward(Forward(inbox, h, seats[1], g), h, seats[2], g)
    /\ UNCHANGED <<ID, Side, room, localRoom, slot, matchQueue, users, rooms, heap, rwMutex, probe>>

\* SendEnd without the else branch: the reader itself gets no "end"
SendEndToOtherOnly(box, h, otherUser) ==
    IF ID[h] # ID[otherUser]
    THEN WriteMessage(box, otherUser, makeMessage("end", "Game Over"))
    ELSE box

\* lines 275-283, one iteration: "end" to the other seat, or to the reader
SendEnd(box, h, otherUser) ==
    IF ID[h] # ID[otherUser]
    THEN WriteMessage(box, otherUser, makeMessage("end", "Game Over"))
    ELSE WriteMessage(box, h, makeMessage("end", "Game Over"))

\* lines 272-285: game.Over: close the room, drop it from the index, send
\* "end" once per seat, return
GameOver(h) ==
    /\ ~Crashed
    /\ pc[h] = "over"
    /\ LET r == localRoom[h]
           seats == heap[r].Users
       IN  /\ heap' = [heap EXCEPT ![r].Status = Closed]
           /\ rooms' = Delete(rooms, heap[r].ID)
           /\ IF seats[1] = Nil
              THEN /\ pc' = [pc EXCEPT ![h] = "panic"]
                   /\ UNCHANGED inbox
              ELSE IF seats[2] = Nil
              THEN /\ pc' = [pc EXCEPT ![h] = "panic"]
                   /\ inbox' = SendEnd(inbox, h, seats[1])
              ELSE /\ pc' = [pc EXCEPT ![h] = "ret_over"]
                   /\ inbox' = SendEnd(SendEnd(inbox, h, seats[1]), h, seats[2])
    /\ UNCHANGED <<ID, Side, room, localRoom, slot, game, frames,
                   matchQueue, users, rwMutex, probe>>

\* ---------------------------------------------------- specifications

\* func matchMaking(): the handler of connection h, one step
matchMaking(h) ==
    \/ ReadJoin(h)
    \/ matchMakingRequest(h)
    \/ ReadAck(h)
    \/ LockSeats(h)
    \/ FillSeat(h)
    \/ CheckSeats(h)
    \/ SpinCond(h)
    \/ SpinBody(h)
    \/ RoomIsReady(h)
    \/ GameCommunication(h)
    \/ ReadError(h)
    \/ Relay(h)
    \/ GameOver(h)

\* Games are played: NumConns clients connect.
Next ==
    \/ matchUsers
    \/ \E h \in 1..NumConns : matchMaking(h)

Spec == Init /\ [][Next]_vars

\* The scheduling the Go runtime gives: a goroutine that can run does run
\* (matchUsers, and every handler step that is not a read from the network);
\* a seat written by the other handler becomes visible to the spinning reader
\* (strong fairness on leaving the loop).  Reads from the network are left to
\* the clients.
HandlerFairness(h) ==
    /\ WF_vars(matchMakingRequest(h))
    /\ WF_vars(LockSeats(h))
    /\ WF_vars(FillSeat(h))
    /\ WF_vars(CheckSeats(h))
    /\ WF_vars(SpinCond(h))
    /\ WF_vars(SpinBody(h))
    /\ SF_vars(SpinBody(h) /\ pc'[h] = "ready")
    /\ WF_vars(RoomIsReady(h))
    /\ WF_vars(GameCommunication(h))
    /\ WF_vars(GameOver(h))

FairSpec ==
    /\ Init /\ [][Next]_vars
    /\ WF_vars(matchUsers)
    /\ \A h \in 1..NumConns : HandlerFairness(h)

\* Matchmaking alone: MatchConns clients connect and send their join frame;
\* none has sent a second frame yet, so every handler is at most at its
\* second read.
MatchNext ==
    \/ matchUsers
    \/ \E h \in 1..MatchConns : ReadJoin(h) \/ matchMakingRequest(h)

MatchSpec == Init /\ [][MatchNext]_vars

\* The board transform alone, applied up to twice to every square.
SymInit ==
    /\ ServerInit
    /\ \E p \in Board : probe = [input |-> p, value |-> p, n |-> 0]

ApplySymmetry ==
    /\ probe.n < 2
    /\ probe' = [probe EXCEPT !.value = diagonalSymmetry(probe.value[1], probe.value[2]),
                              !.n = @ + 1]
    /\ UNCHANGED <<pc, ID, Side, room, localRoom, slot, game, frames, inbox,
                   matchQueue, users, rooms, heap, rwMutex>>

SymNext == ApplySymmetry

SymSpec == SymInit /\ [][SymNext]_vars

\* ================================================================ claims

\* The envelopes with a given action tag among those written to a connection
Envelopes(h, action) == SelectSeq(inbox[h], LAMBDA e : e.action = action)

\* The connections whose room reference is Room r
Peers(r) == {h \in Conns : room[h] = r}

\* The connections whose join request has been read
Joined == {h \in Conns : pc[h] # "join"}

\* The join requests read so far carry pairwise distinct identities
DistinctIdentities == \A a, b \in Joined : a # b => ID[a] # ID[b]

\* C1: while the join requests carry pairwise distinct identities, no peer
\* is matched by more than one MatchUsersLogic call (it has been sent at most
\* one "matched" envelope), no identity has room references to two Rooms, and
\* every allocated Room is referenced by exactly two peers, of different
\* identities.
C1_MatchedOnce ==
    DistinctIdentities =>
        /\ \A h \in Conns : Len(Envelopes(h, "matched")) <= 1
        /\ \A a, b \in Conns :
             (room[a] # Nil /\ room[b] # Nil /\ ID[a] = ID[b]) => room[a] = room[b]
        /\ \A r \in DOMAIN heap :
             /\ Cardinality(Peers(r)) = 2
             /\ \A a, b \in Peers(r) : a # b => ID[a] # ID[b]

\* C1 witness: joins with pairwise distinct identities have all been
\* dispatched; four of the peers are matched into two Rooms.
C1_Witness ==
    /\ DistinctIdentities
    /\ Joined = 1..MatchConns
    /\ matchQueue = <<>>
    /\ \A h \in 1..MatchConns : pc[h] = "wait"
    /\ Len(heap) >= 2
    /\ Cardinality({h \in Conns : room[h] # Nil}) >= 4

\* C7: each Room a dispatch step allocates has empty seats and status
\* Forming; the dispatched requester and exactly one peer taken from the
\* waiting pool get their room reference set to it, the requester with side
\* 8 and the pool peer with side 16; each of the two is sent exactly one
\* "matched" envelope carrying its own identity and side, and no other
\* connection is written to.  Hence the two peers of a Room hold opposite
\* sides.
C7_MatchStep ==
    \A r \in (Len(heap) + 1)..Len(heap') :
        LET user1 == Head(matchQueue)
            found == {h \in Conns \ {user1} : room'[h] = r /\ <<ID[h], h>> \in users}
            sent(u, side) ==
                /\ Len(inbox'[u]) = Len(inbox[u]) + 1
                /\ SubSeq(inbox'[u], 1, Len(inbox[u])) = inbox[u]
                /\ inbox'[u][Len(inbox'[u])].action = "matched"
                /\ inbox'[u][Len(inbox'[u])].msg = [id |-> ID[u], Side |-> side]
        IN  /\ heap'[r].Users = <<Nil, Nil>>
            /\ heap'[r].Status = Forming
            /\ Cardinality(found) = 1
            /\ {h \in Conns : room'[h] = r} = {user1} \cup found
            /\ Side'[user1] = SideFirst
            /\ sent(user1, SideFirst)
            /\ \A user2 \in found : Side'[user2] = SideSecond /\ sent(user2, SideSecond)
            /\ \A h \in Conns \ ({user1} \cup found) : inbox'[h] = inbox[h]

C7_OppositeSides ==
    \A a, b \in Conns :
        (a # b /\ room[a] # Nil /\ room[a] = room[b]) =>
            {Side[a], Side[b]} = {SideFirst, SideSecond}

\* C7: every step satisfies the match-step statement above, and the two
\* peers of a Room always hold opposite sides (8 and 16).
C7_MatchProcedure == [][C7_MatchStep]_vars /\ []C7_OppositeSides

\* C7 witness: a pair has been matched, the requester on side 8 and the pool
\* peer on side 16, each with its "matched" envelope.
C7_Witness ==
    \E a, b \in Conns :
        /\ a # b /\ room[a] # Nil /\ room[a] = room[b]
        /\ Side[a] = SideFirst /\ Side[b] = SideSecond
        /\ Len(Envelopes(a, "matched")) = 1 /\ Len(Envelopes(b, "matched")) = 1

\* C8: on the 10 x 9 board one application of diagonalSymmetry to (r, c)
\* yields (9 - r, 8 - c), a square of the board, and two applications yield
\* (r, c) again; (9,0) goes to (0,8) and (8,0) to (1,8).
C8_Involution ==
    /\ probe.n = 1 =>
         /\ probe.value = <<9 - probe.input[1], 8 - probe.input[2]>>
         /\ probe.value \in Board
         /\ probe.input = <<9, 0>> => probe.value = <<0, 8>>
         /\ probe.input = <<8, 0>> => probe.value = <<1, 8>>
    /\ probe.n = 2 => probe.value = probe.input

\* C8 witness: the transform has been applied twice to the corner (9, 0).
C8_Witness == probe.n = 2 /\ probe.input = <<9, 0>>

\* C9: any two Rooms allocated during one run have different ids.
C9_RoomIdsUnique ==
    \A r1, r2 \in DOMAIN heap : r1 # r2 => heap[r1].ID # heap[r2].ID

\* C2: the status of a Room never decreases: Forming (0) to Active (1) to
\* Closed (2), or Forming to Closed, and a Closed Room stays Closed.
C2_StatusMonotonic ==
    [][\A r \in DOMAIN heap : heap'[r].Status >= heap[r].Status]_vars

\* The coordinates of the i-th "move" envelope written to b are the board
\* transform of those in the i-th frame a's relay loop read
Relayed(a, b, i) ==
    LET f == frames[a][i]
        m == Envelopes(b, "move")[i].msg
    IN  (f.ok /\ f.hasMove) =>
            /\ m.Current = <<9 - f.Current[1], 8 - f.Current[2]>>
            /\ m.Previous = <<9 - f.Previous[1], 8 - f.Previous[2]>>

\* C3: for the two peers a, b of a Room, the "move" envelopes written to b
\* are, one for one and in order, those of the frames a's relay loop has
\* read, each move frame's with the transformed coordinates; so b gets one
\* envelope per frame of a, in a's order, and a gets none for its own
\* frames.  A connection without a Room gets no "move" envelope.
C3_MoveRelay ==
    /\ \A a, b \in Conns :
         (a # b /\ room[a] # Nil /\ room[a] = room[b]) =>
            /\ Len(Envelopes(b, "move")) = Len(frames[a])
            /\ \A i \in 1..Len(frames[a]) : Relayed(a, b, i)
    /\ \A h \in Conns : room[h] = Nil => Envelopes(h, "move") = <<>>

\* C3 witness: in an Active Room a peer has sent two different move frames
\* and the other seat was written two "move" envelopes.
C3_Witness ==
    \E a, b \in Conns :
        /\ a # b /\ room[a] # Nil /\ room[a] = room[b]
        /\ heap[room[a]].Status = Active
        /\ Len(frames[a]) = 2
        /\ frames[a][1].hasMove /\ frames[a][2].hasMove
        /\ frames[a][1] # frames[a][2]
        /\ Len(Envelopes(b, "move")) = 2

\* The Room of peer h has status st
RoomStatus(h, st) == room[h] # Nil /\ heap[room[h]].Status = st

\* A handler has acknowledged and holds (or is about to test) its seat
Waiting(a) == pc[a] \in {"check", "spin", "body"}

\* Peers a and b share a Room, a has acknowledged and waits, and b's handler
\* has returned without an acknowledgment
OneAcknowledged(a, b) ==
    /\ a # b /\ room[a] # Nil /\ room[a] = room[b]
    /\ Waiting(a)
    /\ pc[b] = "ret"

\* C4: if exactly one of the two peers of a Forming Room acknowledges and
\* the other never does, the Room becomes Closed and the acknowledging
\* handler stops waiting, and no "start" envelope is sent to either seat.
C4_FormingDeadline ==
    \A a, b \in 1..NumConns :
        /\ OneAcknowledged(a, b) ~> (RoomStatus(a, Closed) /\ ~Waiting(a))
        /\ [](OneAcknowledged(a, b) =>
                (Envelopes(a, "start") = <<>> /\ Envelopes(b, "start") = <<>>))

\* The number of "end" envelopes written to connection u after / before a step
EndsAfter(u) == Len(SelectSeq(inbox'[u], LAMBDA e : e.action = "end"))
EndsBefore(u) == Len(SelectSeq(inbox[u], LAMBDA e : e.action = "end"))

\* C5: the step in which a relay loop handles a frame with over = true sets
\* the Room's status to Closed, leaves the Room absent from the active-room
\* index, and writes exactly one "end" envelope to each of the two seats,
\* the reader's own included.
C5_GameOverStep ==
    \A h \in Conns :
        (pc[h] = "over" /\ pc'[h] # "over") =>
            LET r == localRoom[h] IN
            /\ pc'[h] = "ret_over"
            /\ heap'[r].Status = Closed
            /\ heap'[r].ID \notin Keys(rooms')
            /\ \A i \in 1..2 :
                 /\ heap[r].Users[i] # Nil
                 /\ EndsAfter(heap[r].Users[i]) = EndsBefore(heap[r].Users[i]) + 1
            /\ h \in {heap[r].Users[1], heap[r].Users[2]}

\* C5: every step that handles a frame with over = true closes the Room,
\* leaves it absent from the index and writes one "end" to each seat.
C5_GameOver == [][C5_GameOverStep]_vars

\* C5 witness: a relay loop of a Room read a frame with over = true while
\* the Room was Active and has returned; the Room is Closed and each seat
\* holds one "end" envelope.
C5_Witness ==
    \E h \in Conns :
        /\ pc[h] = "ret_over"
        /\ game[h].Over
        /\ heap[localRoom[h]].Status = Closed
        /\ \A i \in 1..2 : Len(Envelopes(heap[localRoom[h]].Users[i], "end")) = 1

\* Both peers of a Room have sent "done" after they were matched
BothAcknowledged(a, b) ==
    /\ a # b /\ room[a] # Nil /\ room[a] = room[b]
    /\ pc[a] \notin {"join", "enqueue", "wait", "ret", "ret_nil"}
    /\ pc[b] \notin {"join", "enqueue", "wait", "ret", "ret_nil"}

\* C6: once both peers of a Forming Room have acknowledged, the Room becomes
\* Active, and each of the two is sent a "start" envelope; no connection is
\* ever sent more than one.
C6_BothStart ==
    /\ \A a, b \in 1..NumConns :
         /\ (BothAcknowledged(a, b) /\ RoomStatus(a, Forming)) ~> RoomStatus(a, Active)
         /\ BothAcknowledged(a, b) ~>
              (Len(Envelopes(a, "start")) = 1 /\ Len(Envelopes(b, "start")) = 1)
    /\ [](\A h \in Conns : Len(Envelopes(h, "start")) <= 1)

\* C6 witness: both peers acknowledged, the Room is Active and each holds
\* its "start" envelope.
C6_Witness ==
    \E a, b \in Conns :
        /\ BothAcknowledged(a, b)
        /\ heap[room[a]].Status = Active
        /\ Len(Envelopes(a, "start")) = 1 /\ Len(Envelopes(b, "start")) = 1

\* C10: a Room is not Active once one of its relay loops has returned on a
\* read error.
C10_ClosedOnReadError ==
    \A h \in Conns : pc[h] = "ret_err" => heap[localRoom[h]].Status # Active

\* The number of "move" envelopes written to connection u after / before a step
MovesAfter(u) == Len(SelectSeq(inbox'[u], LAMBDA e : e.action = "move"))
MovesBefore(u) == Len(SelectSeq(inbox[u], LAMBDA e : e.action = "move"))

\* C11: the step in which a relay loop reads a frame that does not decode
\* into a MoveEvent writes no envelope to any connection (so no "move" with
\* the coordinates of an earlier frame, and no "end"), leaves every Room as
\* it was, and the loop goes on to read the sender's next frame.
C11_DropUndecodable ==
    [][\A h \in Conns :
         (Len(frames'[h]) = Len(frames[h]) + 1 /\ ~frames'[h][Len(frames'[h])].ok) =>
            /\ inbox' = inbox
            /\ heap' = heap
            /\ pc'[h] = "relay"]_vars

\* C12: once a relay loop of a Room has handled a frame with over = true and
\* returned, no "move" envelope is written to either seat of that Room.
C12_NoMoveAfterOver ==
    [][\A h \in Conns :
         pc[h] = "ret_over" =>
            \A i \in 1..2 :
                MovesAfter(heap[localRoom[h]].Users[i]) =
                    MovesBefore(heap[localRoom[h]].Users[i])]_vars

\* Handler h has read "done" with a room reference set
Acknowledged(h) == pc[h] \notin {"join", "enqueue", "wait", "ret", "ret_nil"}

\* C13: a Room whose status is Active has both seats occupied, each by a
\* peer whose room reference is that Room, that was sent "matched" and has
\* sent "done"; a relay loop's Room has no empty seat, and no handler has
\* dereferenced a nil seat.
C13_ActiveSeated ==
    /\ \A r \in DOMAIN heap :
         heap[r].Status = Active =>
            \A i \in 1..2 :
                /\ heap[r].Users[i] # Nil
                /\ room[heap[r].Users[i]] = r
                /\ Acknowledged(heap[r].Users[i])
                /\ Len(Envelopes(heap[r].Users[i], "matched")) = 1
    /\ \A h \in Conns :
         pc[h] \in {"relay", "over"} =>
            \A i \in 1..2 : heap[localRoom[h]].Users[i] # Nil
    /\ ~Crashed

\* C13 witness: a relay loop of an Active Room has read a frame and iterated
\* over the two occupied seats.
C13_Witness ==
    \E h \in Conns :
        /\ pc[h] = "relay"
        /\ Len(frames[h]) >= 1
        /\ heap[localRoom[h]].Status = Active
        /\ \A i \in 1..2 : heap[localRoom[h]].Users[i] # Nil

\* Handler h has left the locked seat loop of lines 155-162
Seated(h) == Acknowledged(h) /\ pc[h] \notin {"lock", "fill"}

\* A seat once filled keeps its occupant
C14_SeatStep ==
    \A r \in DOMAIN heap : \A i \in 1..2 :
        heap[r].Users[i] # Nil => heap'[r].Users[i] = heap[r].Users[i]

\* Each peer past the seat loop holds exactly one seat of its Room
C14_Seated ==
    \A h \in Conns :
        Seated(h) =>
            Cardinality({i \in 1..2 : heap[localRoom[h]].Users[i] = h}) = 1

\* C14: under every interleaving of the two peers' "done" handling, a seat
\* once filled is never overwritten or cleared, and each acknowledging peer
\* ends up in exactly one seat of its Room (so two peers are in different
\* seats).
C14_AtomicSeats == [][C14_SeatStep]_vars /\ []C14_Seated

\* C14 witness: both peers of a Room have acknowledged and hold the two
\* seats, the peer matched from the pool (side 16) in the first.
C14_Witness ==
    \E a, b \in Conns :
        /\ a # b /\ room[a] # Nil /\ room[a] = room[b]
        /\ Seated(a) /\ Seated(b)
        /\ heap[room[a]].Users = <<a, b>>
        /\ Side[a] = SideSecond

\* The occupied seats of the Room a relay loop works on
SeatsOf(h) == {heap[localRoom[h]].Users[i] : i \in 1..2} \ {Nil}

\* The tasks that write to connections: the dispatcher (0) and the handlers
Dispatcher == 0
Tasks == {Dispatcher} \cup Conns

\* The connections the next step of task t writes to, with nothing but t's
\* own progress (and, for a relay loop, the arrival of its client's frame)
\* between t and the WriteMessage call: no lock is taken on the way.
\*   dispatcher, a request is queued and the pool holds another identity:
\*       "matched" to both (lines 236-237)
\*   handler at GameCommunication's first statement: "start" to its own
\*       connection (line 250)
\*   relay loop reading: "move" to the other seat (line 265)
\*   relay loop after a frame with over = true: "end" to both seats
\*       (lines 278, 281)
NextWrites(t) ==
    IF t = Dispatcher
    THEN IF matchQueue = <<>> THEN {}
         ELSE LET userInfo == Head(matchQueue)
                  others == {e[2] : e \in {x \in users : x[1] # ID[userInfo]}}
              IN  IF others = {} THEN {} ELSE {userInfo} \cup others
    ELSE IF pc[t] = "start" THEN {t}
    ELSE IF pc[t] = "relay" /\ FramesRead(MaxConn) < MaxFrames
         THEN {u \in SeatsOf(t) : ID[u] # ID[t]}
    ELSE IF pc[t] = "over" THEN SeatsOf(t)
    ELSE {}

\* C15: at any moment at most one task (the dispatcher, the peer's own
\* handler or relay loop, the paired peer's relay loop) is writing on a
\* given connection.
C15_OneWriter ==
    \A c \in Conns : Cardinality({t \in Tasks : c \in NextWrites(t)}) <= 1

\* Handler h has tested game.Over and stands at lines 273-274: the write of
\* room.Status and delete(rooms, room.ID), with no lock held
InRoomsWrite(h) == pc[h] = "over"

\* C16: no two relay loops are inside the unsynchronised write to the
\* active-room index at the same time.
C16_RoomsIndexExclusive ==
    \A a, b \in Conns : a # b => ~(InRoomsWrite(a) /\ InRoomsWrite(b))

\* The place of an envelope in the order matched, start, move, end
Rank(e) ==
    IF e.action = "matched" THEN 1
    ELSE IF e.action = "start" THEN 2
    ELSE IF e.action = "move" THEN 3 ELSE 4

\* C19: the envelopes written to a peer are ordered "matched", "start", zero
\* or more "move", at most one "end": a "move" or "end" comes after the
\* peer's own "start", no "start" comes after an "end", and there is at most
\* one "end".
C19_EnvelopeOrder ==
    \A h \in Conns :
        /\ \A i, j \in 1..Len(inbox[h]) :
             i < j => Rank(inbox[h][i]) <= Rank(inbox[h][j])
        /\ \A i \in 1..Len(inbox[h]) :
             inbox[h][i].action \in {"move", "end"} =>
                \E j \in 1..(i - 1) : inbox[h][j].action = "start"
        /\ Len(Envelopes(h, "end")) <= 1

\* The peers held in the waiting pool, and those queued for the dispatcher:
\* the peers a dispatch step can hand to the match procedure
PoolPeers == {e[2] : e \in users}
QueuedPeers == {matchQueue[i] : i \in 1..Len(matchQueue)}

\* C20: every peer in the waiting pool, and every peer about to be handed to
\* the match procedure, has a handler that is still running and waits for
\* its acknowledgment.
C20_PoolPeersWaiting ==
    \A h \in PoolPeers \cup QueuedPeers : pc[h] = "wait"

\* A dispatch step: the dispatcher takes the request at the head of the queue
Dispatched == matchQueue # <<>> /\ matchQueue' = Tail(matchQueue)

\* The pool entries a request of peer u can be matched with
OtherIdentities(u) == {e \in users : e[1] # ID[u]}

\* The step matches the request of peer u with pool peer v in a new Room
MatchedWith(u, v) ==
    /\ Len(heap') = Len(heap) + 1
    /\ room'[u] = Len(heap') /\ room'[v] = Len(heap')

\* What a dispatch step does with the request (the part the original and
\* the amended statement share): with another identity in the pool the pair
\* is matched and both identities leave the pool; otherwise there is no
\* match and the requester is in the pool.  Other steps leave the pool alone.
C17_Request ==
    IF Dispatched
    THEN LET u == Head(matchQueue) IN
         IF OtherIdentities(u) # {}
         THEN \E e \in OtherIdentities(u) :
                 /\ MatchedWith(u, e[2])
                 /\ ID[u] \notin Keys(users') /\ e[1] \notin Keys(users')
         ELSE /\ heap' = heap
              /\ <<ID[u], u>> \in users'
    ELSE users' = users

\* A peer in the pool stays there unchanged unless the step dispatches a
\* request with a different identity, which it is matched with
C17_StaysUntilMatched ==
    \A e \in users :
        \/ e \in users'
        \/ Dispatched /\ ID[Head(matchQueue)] # e[1] /\ MatchedWith(Head(matchQueue), e[2])

C17_StaysUntilMatchedOrReplaced ==
    \A e \in users :
        \/ e \in users'
        \/ Dispatched /\ ID[Head(matchQueue)] # e[1] /\ MatchedWith(Head(matchQueue), e[2])
        \/ /\ Dispatched /\ ID[Head(matchQueue)] = e[1]
           /\ <<e[1], Head(matchQueue)>> \in users'
           /\ room'[e[2]] = room[e[2]]

C18_PoolAtMostOne ==
    /\ [](Cardinality(users) <= 1)
    /\ [][Len(heap') <= Len(heap) + 1]_vars

\* C18 witness: dispatch steps have matched two pairs, each scan running
\* over a pool of two with both entries deleted during it, and a fifth peer
\* waits alone in the pool.
C18_Witness ==
    /\ Len(heap) = 2
    /\ Cardinality(users) = 1
    /\ matchQueue = <<>>

====
